---- MODULE Spec2Model ----
(***************************************************************************)
(* Model of the multi-provider orchestration code of server/index.ts       *)
(* (the same functions appear in server/routes.ts): the face-analysis      *)
(* fan-out and its integrator, the assessment validator, the audio         *)
(* transcription chain, the Video Indexer run, the LLM synthesis of        *)
(* getEnhancedPersonalityInsights, the three analysis route handlers, the  *)
(* chat handler and the order in which registerRoutes registers them.      *)
(*                                                                         *)
(* The server handles one operation at a time in the model: pc = "idle"    *)
(* is the state after registerRoutes, every operation starts from it and   *)
(* ends in a terminal position of its own.                                 *)
(***************************************************************************)
EXTENDS Integers, Sequences, FiniteSets, TLC

\* ------------------------------------------------------------------------
\* Bounds of the model (not program constants)
\* ------------------------------------------------------------------------
MaxFaces == 3
MaxPeopleArg == 2
MaxDeviant == 2
MaxUtterances == 2
MaxSegmentStart == 1
MaxSegmentDuration == 2
MaxVideoDuration == 2

Min(a, b) == IF a < b THEN a ELSE b

\* ------------------------------------------------------------------------
\* Face analysis: data
\* ------------------------------------------------------------------------
FaceProviders == {"azure_face", "facepp", "google_vision", "aws_rekognition"}
KeyedFaceProviders == {"azure_face", "facepp", "google_vision"}

\* one face of one provider's response, identified by provider and position
NoFace == [src |-> "none", idx |-> 0]
FaceList(p, n) == [i \in 1..n |-> [src |-> p, idx |-> i]]

\* a slot of analysisResults: null, {error: ...}, response data without a
\* face list, or response data with a face list (possibly empty)
NullSlot == [kind |-> "null", faces |-> <<>>]
ErrorSlot == [kind |-> "error", faces |-> <<>>]
ObjectSlot == [kind |-> "object", faces |-> <<>>]
ListSlot(p, n) == [kind |-> "list", faces |-> FaceList(p, n)]

\* what a provider call can do: throw, answer with a non-OK status, or
\* answer OK with data
NoOutcome == [kind |-> "none", faces |-> <<>>]
ThrowOutcome == [kind |-> "throw", faces |-> <<>>]
NotOkOutcome == [kind |-> "notOk", faces |-> <<>>]

\* the call was issued and the provider never answers: no call of the
\* fan-out carries a timeout or an abort signal
HangOutcome == [kind |-> "hang", faces |-> <<>>]

HttpOutcomes(p) ==
  {ThrowOutcome, NotOkOutcome, ObjectSlot} \cup {ListSlot(p, n) : n \in 0..MaxFaces}

\* analyzeFaces returns a non-empty list cut to maxPeople, or throws
RekognitionOutcomes(mp) ==
  {ThrowOutcome} \cup {ListSlot("aws_rekognition", n) : n \in 1..Min(MaxFaces, mp)}

ProviderOutcomes(p, mp) ==
  IF p = "aws_rekognition" THEN RekognitionOutcomes(mp) ELSE HttpOutcomes(p)


\* ------------------------------------------------------------------------
\* Assessments: data
\* ------------------------------------------------------------------------
coreQuestions ==
  <<"core_motivation", "confidence_level", "self_acceptance", "intelligence_level",
    "creativity_assessment", "stress_handling", "trustworthiness", "authenticity",
    "ambition_level", "insecurities", "social_validation", "independence",
    "communication_style", "criticism_response", "outlook", "humor_sense",
    "treatment_of_others", "consistency", "hidden_strengths", "hidden_weaknesses">>

QuestionNames == {coreQuestions[k] : k \in 1..Len(coreQuestions)}

MinAnswerLength == 10

\* a value of one field of core_psychological_assessment: absent, null, a
\* string of body non-blank-delimited characters surrounded by pad
\* whitespace characters, or a value that is not a string (number, object)
AbsentValue == [t |-> "absent", pad |-> 0, body |-> 0]
NullValue == [t |-> "null", pad |-> 0, body |-> 0]
NonStringValue == [t |-> "nonString", pad |-> 0, body |-> 0]
StringValue(pad, body) == [t |-> "string", pad |-> pad, body |-> body]

StringValues ==
  {StringValue(pad, body) :
     pad \in {0, 2},
     body \in {0, MinAnswerLength - 1, MinAnswerLength, MinAnswerLength + 1}}

FieldValues == {AbsentValue, NullValue, NonStringValue} \cup StringValues

GoodAnswer == StringValue(0, MinAnswerLength + 1)
ShortestAnswer == StringValue(0, MinAnswerLength)

\* a parsed model response: undefined, {}, an object without
\* detailed_analysis.core_psychological_assessment, or an object with it;
\* by names the provider that produced it
UndefinedResult == [shape |-> "undefined", by |-> "none", fields |-> [q \in QuestionNames |-> AbsentValue]]
EmptyObject == [shape |-> "empty", by |-> "none", fields |-> [q \in QuestionNames |-> AbsentValue]]
NoCoreObject(by) == [shape |-> "noCore", by |-> by, fields |-> [q \in QuestionNames |-> AbsentValue]]
CoreObject(by, fields) == [shape |-> "core", by |-> by, fields |-> fields]

\* field maps in which the fields of D hold v and all others hold base
FieldMap(D, v, base) == [q \in QuestionNames |-> IF q \in D THEN v ELSE base]

\* the subsets of S of at most k elements
RECURSIVE SmallSubsets(_, _)
SmallSubsets(S, k) ==
  IF k = 0 THEN {{}}
  ELSE LET smaller == SmallSubsets(S, k - 1)
       IN smaller \cup {D \cup {x} : D \in smaller, x \in S}

ValidatorInputs ==
  {UndefinedResult, EmptyObject, NoCoreObject("none")} \cup
  {CoreObject("none", FieldMap(D, v, base)) :
     D \in SmallSubsets(QuestionNames, MaxDeviant),
     v \in FieldValues,
     base \in {GoodAnswer, ShortestAnswer, AbsentValue}}


\* ------------------------------------------------------------------------
\* Audio transcription: data
\* ------------------------------------------------------------------------
\* the order in which extractAudioTranscription tries the providers
TranscriptionOrder == <<"gladia", "assemblyai", "deepgram", "openai_whisper">>
TranscriptionProviders == {TranscriptionOrder[k] : k \in 1..Len(TranscriptionOrder)}

\* number of polls of the AssemblyAI transcript
AssemblyMaxPolls == 30

\* what a provider's call did. kind "ok" is a response the code accepts as
\* a transcript; primary and secondary are the lengths of the two
\* segmentations the response may carry (Gladia: utterances / segments,
\* AssemblyAI: sentiment_analysis_results, Deepgram: paragraphs /
\* sentences, Whisper: segments); text says whether the transcript text of
\* the response is a non-empty string
SttNone == [kind |-> "none", primary |-> 0, secondary |-> 0, text |-> FALSE]
SttFail(kind) == [kind |-> kind, primary |-> 0, secondary |-> 0, text |-> FALSE]
SttOk(n, m) == [kind |-> "ok", primary |-> n, secondary |-> m, text |-> TRUE]

\* an accepted response whose transcript text is the empty string (no speech
\* in the audio); Gladia's response is accepted only with a truthy text
SttOkNoText == [kind |-> "ok", primary |-> 0, secondary |-> 0, text |-> FALSE]

TwoListOks == {SttOk(n, m) : n \in 0..MaxUtterances, m \in 0..MaxUtterances}
OneListOks == {SttOk(n, 0) : n \in 0..MaxUtterances}

GladiaOutcomes == {SttFail("throw"), SttFail("notOk"), SttFail("noTranscript")} \cup TwoListOks
AssemblySubmitOutcomes == {SttFail("throw"), SttFail("notOk"), SttFail("submitted")}
AssemblyPollOutcomes ==
  {SttFail("throw"), SttFail("notOk"), SttFail("processing"), SttFail("error"), SttOkNoText}
    \cup OneListOks
DeepgramOutcomes ==
  {SttFail("throw"), SttFail("notOk"), SttFail("noChannels"), SttOkNoText} \cup TwoListOks
WhisperOutcomes == {SttFail("throw"), SttOkNoText} \cup OneListOks

\* the utterances built from an accepted response: the first segmentation
\* if it is non-empty, else the second, else one utterance of the full text
UtteranceList(p, n, how) == [i \in 1..n |-> [by |-> p, idx |-> i, from |-> how]]

\* variant without the single-utterance fallback
UtterancesWithoutFallback(p, outcome) ==
  IF outcome.primary > 0 THEN UtteranceList(p, outcome.primary, "primary")
  ELSE UtteranceList(p, outcome.secondary, "secondary")

UtterancesOf(p, outcome) ==
  IF outcome.primary > 0 THEN UtteranceList(p, outcome.primary, "primary")
  ELSE IF outcome.secondary > 0 THEN UtteranceList(p, outcome.secondary, "secondary")
  ELSE UtteranceList(p, 1, "fullText")

\* transcriptionResult: provider, text and transcription.utterances
NoTranscription ==
  [provider |-> "none", hasData |-> FALSE, utterances |-> <<>>, text |-> FALSE]
TranscriptionBy(p, outcome) ==
  [provider |-> p, hasData |-> TRUE, utterances |-> UtterancesOf(p, outcome),
   text |-> outcome.text]


\* ------------------------------------------------------------------------
\* Language-model synthesis: data
\* ------------------------------------------------------------------------
\* the three providers of the single-subject fan-out, in the order of
\* apiPromises
LLMProviders == {"openai", "anthropic", "perplexity"}

\* every client the server may have configured
LLMClients == LLMProviders \cup {"deepseek"}

\* assessments a model's response may parse to: complete, one answer
\* absent, three answers absent / null / too short, one answer that is not
\* a string, no core assessment at all, the empty object
CompleteAssessment(by) == CoreObject(by, FieldMap({}, AbsentValue, GoodAnswer))

MissingOneAssessment(by) ==
  CoreObject(by, FieldMap({"hidden_weaknesses"}, AbsentValue, GoodAnswer))

MissingThreeAssessment(by) ==
  CoreObject(by, [q \in QuestionNames |->
    IF q = "confidence_level" THEN AbsentValue
    ELSE IF q = "trustworthiness" THEN NullValue
    ELSE IF q = "outlook" THEN StringValue(2, MinAnswerLength - 1)
    ELSE GoodAnswer])

NonStringAssessment(by) ==
  CoreObject(by, FieldMap({"core_motivation"}, NonStringValue, GoodAnswer))

EmptyObjectBy(by) == [EmptyObject EXCEPT !.by = by]

ParsedAssessments(by) ==
  {CompleteAssessment(by), MissingOneAssessment(by), MissingThreeAssessment(by),
   NonStringAssessment(by), NoCoreObject(by), EmptyObjectBy(by)}

\* what a model call produced: a rejection, a response whose text does not
\* parse, or a response that parses to an assessment
NoResponse == [kind |-> "none", assessment |-> UndefinedResult]
Rejected == [kind |-> "rejected", assessment |-> UndefinedResult]
Unparsable(by) == [kind |-> "unparsable", assessment |-> [UndefinedResult EXCEPT !.by = by]]
Parsed(a) == [kind |-> "parsed", assessment |-> a]

Responses(by) == {Unparsable(by)} \cup {Parsed(a) : a \in ParsedAssessments(by)}

\* perplexity.query catches every error of its request and returns an
\* empty text, so with the key set its promise always fulfils
CallOutcomes(p) == IF p = "perplexity" THEN Responses(p) ELSE {Rejected} \cup Responses(p)


\* ------------------------------------------------------------------------
\* Requests: data
\* ------------------------------------------------------------------------
NoBody ==
  [route |-> "none", mediaType |-> "none", maxPeople |-> 0, selectedModel |-> "none",
   valid |-> FALSE]

\* bodies of POST /api/analyze; valid: uploadMediaSchema accepts the body
\* videoSegmentDuration = 3 when the body has none
DefaultSegmentDuration == 3

ImageBodies ==
  {[route |-> "analyze", mediaType |-> "image", maxPeople |-> mp,
    selectedModel |-> "deepseek", valid |-> v, videoSegmentStart |-> 0,
    videoSegmentDuration |-> DefaultSegmentDuration] : mp \in 1..MaxPeopleArg, v \in BOOLEAN}

VideoBodies ==
  {[route |-> "analyze", mediaType |-> "video", maxPeople |-> mp,
    selectedModel |-> "deepseek", valid |-> TRUE, videoSegmentStart |-> st,
    videoSegmentDuration |-> du] :
      mp \in 1..MaxPeopleArg, st \in 0..MaxSegmentStart,
      du \in (1..MaxSegmentDuration) \cup {DefaultSegmentDuration}}

AnalyzeBodies == ImageBodies \cup VideoBodies

\* bodies of POST /api/analyze/text; valid: content and sessionId present
TextBodies ==
  {[route |-> "text", mediaType |-> "text", maxPeople |-> 0, selectedModel |-> sm,
    valid |-> v] : sm \in LLMClients, v \in BOOLEAN}

\* bodies of POST /api/analyze/document; valid: fileData and sessionId
\* present and well formed
DocumentBodies ==
  {[route |-> "document", mediaType |-> "document", maxPeople |-> 0, selectedModel |-> sm,
    valid |-> v] : sm \in LLMClients, v \in BOOLEAN}

NotResponded == [status |-> 0, error |-> "none", fields |-> <<>>]
OkResponse == [status |-> 200, error |-> "none", fields |-> <<>>]
ErrorResponse(status, error, fields) == [status |-> status, error |-> error, fields |-> fields]

\* results of the face providers a request may meet: every provider
\* failed, or Face++ alone answered with n faces
AllFailed == [p \in FaceProviders |-> ErrorSlot]
FaceppOnly(n) == [AllFailed EXCEPT !["facepp"] = ListSlot("facepp", n)]
FaceSamples(mp) == {AllFailed} \cup {FaceppOnly(n) : n \in 0..Min(MaxFaces, mp)}

VARIABLES
  pc,               \* position of the operation in progress
  maxPeople,        \* argument of the face analysis
  faceKeys,         \* face providers whose credentials are in the environment
  servicePromises,  \* state of each provider's promise
  callOutcome,      \* what each provider's call did (history)
  analysisResults,  \* the shared result object, one slot per provider
  integratedResults, \* value returned by comprehensiveMultiServiceFaceAnalysis
  valInput,         \* argument of validateCoreAssessment
  valResult,        \* its outcome
  sttKeys,          \* transcription providers that are configured
  transcriptionResult, \* local of extractAudioTranscription
  invoked,          \* transcription providers called so far, in order (history)
  sttOutcome,       \* what each transcription provider's call did (history)
  pollCount,        \* loop counter of the AssemblyAI poll
  audioReturn,      \* value returned by extractAudioTranscription
  llmClients,       \* language-model clients that are configured
  apiPromises,      \* state of each promise of the language-model fan-out
  apiValue,         \* value a fulfilled language-model promise carries
  settledResults,   \* what Promise.allSettled handed to the selection
  insights,         \* outcome of the single-subject synthesis
  reqBody,          \* body of the request being handled
  faceSlots,        \* what the face providers returned for the request
  faceAnalysis,     \* handler local: the integrated people
  audioTranscription, \* handler local: null for an image
  synthesized,      \* what each synthesis call of the request produced (history)
  personalityInsights, \* handler local
  analyses,         \* storage: the records created by createAnalysis
  response,         \* the HTTP response sent
  callLog,          \* the handler's calls and milestones, in order (history)
  tempFiles,        \* files of the temp directory written by the handler
  videoAnalysis,    \* handler local: null for an image
  videoDuration,    \* handler local: what getVideoDuration returned
  actualDuration,   \* handler local: the duration of the segment
  pendingPeople,    \* per-person synthesis promises not yet settled
  indexerKey,       \* are the three Video Indexer settings in the environment
  indexingRetries,  \* loop counter of analyzeVideoWithAzureIndexer
  indexerCalls,     \* requests sent to the Video Indexer API (history)
  indexerFailure,   \* the step at which the indexer run failed (history)
  azureVideoInsights, \* value returned by analyzeVideoWithAzureIndexer
  messages,         \* storage: the roles of the session's messages, in order
  storeAtArrival,   \* the session's messages when the request arrived (history)
  handlerRun        \* registrations whose handler ran for the request (history)

faceVars == <<maxPeople, faceKeys, servicePromises, callOutcome,
              analysisResults, integratedResults>>

valVars == <<valInput, valResult>>

sttVars == <<sttKeys, transcriptionResult, invoked, sttOutcome, pollCount, audioReturn>>

llmVars == <<llmClients, apiPromises, apiValue, settledResults, insights>>

reqVars == <<reqBody, faceSlots, faceAnalysis, audioTranscription, synthesized,
            personalityInsights, analyses, response, callLog, tempFiles,
            videoAnalysis, videoDuration, actualDuration, pendingPeople>>

vidVars == <<indexerKey, indexingRetries, indexerCalls, indexerFailure, azureVideoInsights>>

chatVars == <<messages, storeAtArrival, handlerRun>>

vars == <<pc, faceVars, valVars, sttVars, llmVars, reqVars, vidVars, chatVars>>

\* ------------------------------------------------------------------------
\* integrateMultiServiceResults
\* ------------------------------------------------------------------------
HasFaceppFaces(ar) == ar.facepp.kind = "list" /\ Len(ar.facepp.faces) > 0
HasAzureFaces(ar) == ar.azure_face.kind = "list" /\ Len(ar.azure_face.faces) > 0
HasGoogleAnnotations(ar) == ar.google_vision.kind = "list"

\* !!(slot && !slot.error)
ServiceAvailable(slot) == slot.kind \in {"object", "list"}

NoStatus ==
  [facepp_available |-> FALSE, azure_face_available |-> FALSE,
   google_vision_available |-> FALSE, aws_rekognition_available |-> FALSE,
   total_services_used |-> 0]

NewPerson(i, face) ==
  [personIndex |-> i,
   boundingBox |-> face,
   multiServiceData |->
     [facepp |-> IF face.src = "facepp" THEN face ELSE NoFace,
      azure_face |-> IF face.src = "azure_face" THEN face ELSE NoFace,
      google_vision |-> IF face.src = "google_vision" THEN face ELSE NoFace,
      aws_rekognition |-> NoFace],
   serviceStatus |-> NoStatus]

\* variant without the maxPeople cap
SeedPeopleUncapped(faces, mp) ==
  [i \in 1..Len(faces) |-> NewPerson(i, faces[i])]

SeedPeople(faces, mp) ==
  [i \in 1..Min(Len(faces), mp) |-> NewPerson(i, faces[i])]

\* "Start with Face++ results as primary"
FaceppPrimary(ar, mp) ==
  IF HasFaceppFaces(ar) THEN SeedPeople(ar.facepp.faces, mp) ELSE <<>>

\* "Enhance with Azure Face data if available"
EnhanceWithAzure(people, ar) ==
  IF HasAzureFaces(ar)
  THEN [i \in 1..Len(people) |->
          IF i <= Min(Len(ar.azure_face.faces), Len(people))
          THEN [people[i] EXCEPT !.multiServiceData.azure_face = ar.azure_face.faces[i]]
          ELSE people[i]]
  ELSE people

\* "Enhance with Google Vision data if available"
EnhanceWithGoogle(people, ar) ==
  IF HasGoogleAnnotations(ar)
  THEN [i \in 1..Len(people) |->
          IF i <= Min(Len(ar.google_vision.faces), Len(people))
          THEN [people[i] EXCEPT !.multiServiceData.google_vision = ar.google_vision.faces[i]]
          ELSE people[i]]
  ELSE people

\* "If no Face++ results, fall back to other services"
FallbackPrimary(people, ar, mp) ==
  IF Len(people) = 0
  THEN IF HasAzureFaces(ar) THEN SeedPeople(ar.azure_face.faces, mp)
       ELSE IF HasGoogleAnnotations(ar) THEN SeedPeople(ar.google_vision.faces, mp)
       ELSE people
  ELSE people

\* "Add comprehensive service status"
StampServiceStatus(people, ar) ==
  [i \in 1..Len(people) |->
     [people[i] EXCEPT !.serviceStatus =
        [facepp_available |-> ServiceAvailable(ar.facepp),
         azure_face_available |-> ServiceAvailable(ar.azure_face),
         google_vision_available |-> ServiceAvailable(ar.google_vision),
         aws_rekognition_available |-> ServiceAvailable(ar.aws_rekognition),
         total_services_used |->
           Cardinality({p \in FaceProviders : ServiceAvailable(ar[p])})]]]

integrateMultiServiceResults(ar, mp) ==
  StampServiceStatus(
    FallbackPrimary(
      EnhanceWithGoogle(EnhanceWithAzure(FaceppPrimary(ar, mp), ar), ar),
      ar, mp),
    ar)

\* ------------------------------------------------------------------------
\* comprehensiveMultiServiceFaceAnalysis
\* ------------------------------------------------------------------------
EmptyResults == [p \in FaceProviders |-> NullSlot]

\* what a provider's async block writes to its slot once its call settled:
\* the data on an OK response, {error} on a non-OK response or in the catch
SlotWritten(outcome) ==
  IF outcome.kind \in {"throw", "notOk"} THEN ErrorSlot ELSE outcome

\* variant of a provider block without its catch: a throw of the call
\* rejects the block's promise
BlockPromiseUncaught(outcome) == IF outcome.kind = "throw" THEN "rejected" ELSE "fulfilled"

\* state of the block's promise once its call settled: the block catches
\* every exception, so its promise always fulfils
BlockPromise(outcome) == "fulfilled"

\* the image/frame arrives, the configured providers are all started
FaceStart(keys, mp) ==
  /\ pc = "idle"
  /\ pc' = "face_running"
  /\ maxPeople' = mp
  /\ faceKeys' = keys
  /\ servicePromises' =
       [p \in FaceProviders |->
          IF p \in keys \cup {"aws_rekognition"} THEN "pending" ELSE "none"]
  /\ callOutcome' = [p \in FaceProviders |-> NoOutcome]
  /\ analysisResults' = EmptyResults
  /\ UNCHANGED <<integratedResults, vidVars, valVars, sttVars, llmVars, reqVars, chatVars>>

\* one provider's call settles and its block writes its slot
FaceSettle(p, outcome) ==
  /\ pc = "face_running"
  /\ servicePromises[p] = "pending"
  /\ callOutcome[p] = NoOutcome
  /\ callOutcome' = [callOutcome EXCEPT ![p] = outcome]
  /\ servicePromises' = [servicePromises EXCEPT ![p] = BlockPromise(outcome)]
  /\ analysisResults' =
       IF BlockPromise(outcome) = "fulfilled"
       THEN [analysisResults EXCEPT ![p] = SlotWritten(outcome)]
       ELSE analysisResults
  /\ UNCHANGED <<pc, maxPeople, faceKeys, integratedResults, vidVars, valVars, sttVars, llmVars, reqVars, chatVars>>

\* variant that goes on with the first block that has settled
FirstPromiseSettled(promises) ==
  \E p \in FaceProviders : promises[p] \in {"rejected", "fulfilled"}

\* Promise.all(servicePromises) settles: it rejects as soon as one promise
\* is rejected, and fulfils when all are fulfilled
PromiseAllSettled(promises) ==
  \/ \E p \in FaceProviders : promises[p] = "rejected"
  \/ \A p \in FaceProviders : promises[p] \in {"none", "fulfilled"}

\* await Promise.all(servicePromises), then integrate
FaceJoin ==
  /\ pc = "face_running"
  /\ PromiseAllSettled(servicePromises)
  /\ IF \E p \in FaceProviders : servicePromises[p] = "rejected"
     THEN /\ pc' = "face_rejected"
          /\ UNCHANGED integratedResults
     ELSE /\ pc' = "face_done"
          /\ integratedResults' = integrateMultiServiceResults(analysisResults, maxPeople)
  /\ UNCHANGED <<maxPeople, faceKeys, servicePromises, callOutcome, analysisResults, vidVars, valVars, sttVars, llmVars, reqVars, chatVars>>

\* one provider of the fan-out never answers: its promise stays pending
FaceHang(p) ==
  /\ pc = "face_running"
  /\ servicePromises[p] = "pending"
  /\ \A q \in FaceProviders : callOutcome[q] = NoOutcome
  /\ callOutcome' = [callOutcome EXCEPT ![p] = HangOutcome]
  /\ UNCHANGED <<pc, maxPeople, faceKeys, servicePromises, analysisResults,
                 integratedResults, vidVars, valVars, sttVars, llmVars, reqVars, chatVars>>

FaceNext ==
  \/ /\ pc = "idle"
     /\ \E keys \in SUBSET FaceProviders, mp \in 1..MaxPeopleArg : FaceStart(keys, mp)
  \/ /\ pc = "face_running"
     /\ \E p \in FaceProviders :
          \E outcome \in ProviderOutcomes(p, maxPeople) : FaceSettle(p, outcome)
  \/ /\ pc = "face_running"
     /\ \E p \in FaceProviders : FaceHang(p)
  \/ FaceJoin



\* ------------------------------------------------------------------------
\* validateCoreAssessment
\* ------------------------------------------------------------------------
\* !value is false
Truthy(v) == v.t = "nonString" \/ (v.t = "string" /\ v.pad + v.body > 0)

\* value.trim().length
TrimmedLength(v) == v.body

\* variant that measures the untrimmed string
UntrimmedFieldMissing(v) == ~Truthy(v) \/ v.pad + v.body < MinAnswerLength

\* !value || value.trim().length < 10, for a value that has trim()
FieldMissing(v) == ~Truthy(v) \/ TrimmedLength(v) < MinAnswerLength

\* value.trim is not a function
TrimThrows(v) == Truthy(v) /\ v.t # "string"

NotValidated == [kind |-> "none", missingFields |-> <<>>]

validateCoreAssessment(analysisResult) ==
  IF analysisResult.shape = "undefined"
  THEN [kind |-> "TypeError", missingFields |-> <<>>]
  ELSE IF analysisResult.shape # "core"
  THEN [kind |-> "noCore", missingFields |-> <<>>]
  ELSE IF \E q \in QuestionNames : TrimThrows(analysisResult.fields[q])
  THEN [kind |-> "TypeError", missingFields |-> <<>>]
  ELSE LET missing == SelectSeq(coreQuestions,
                                LAMBDA q : FieldMissing(analysisResult.fields[q]))
       IN IF Len(missing) > 0
          THEN [kind |-> "incomplete", missingFields |-> missing]
          ELSE [kind |-> "valid", missingFields |-> <<>>]

\* the validator is applied to one parsed response
Validate(a) ==
  /\ pc = "idle"
  /\ pc' = "validated"
  /\ valInput' = a
  /\ valResult' = validateCoreAssessment(a)
  /\ UNCHANGED <<vidVars, faceVars, sttVars, llmVars, reqVars, chatVars>>

ValNext == pc = "idle" /\ \E a \in ValidatorInputs : Validate(a)

\* ------------------------------------------------------------------------
\* Properties of the validator
\* ------------------------------------------------------------------------
Reported(result, q) ==
  /\ result.kind = "incomplete"
  /\ \E k \in 1..Len(result.missingFields) : result.missingFields[k] = q

\* absent, null, empty, or trimmed string length below 10
AbsentOrShort(v) ==
  \/ v.t \in {"absent", "null"}
  \/ v.t = "string" /\ v.body < 10

AllFieldsStringOrAbsent(a) ==
  \A q \in QuestionNames : a.fields[q].t \in {"absent", "null", "string"}

TryGuard(p) == transcriptionResult.provider = "none" /\ p \in sttKeys

\* a provider was called and its call ended with outcome
Called(p, outcome) ==
  /\ invoked' = Append(invoked, p)
  /\ sttOutcome' = [sttOutcome EXCEPT ![p] = outcome]
  /\ transcriptionResult' =
       IF outcome.kind = "ok" THEN TranscriptionBy(p, outcome) ELSE transcriptionResult

NotCalled == UNCHANGED <<invoked, sttOutcome, transcriptionResult>>

\* the value returned when the chain has run (1513-1559)
ChainReturn(tr) ==
  IF tr.provider = "none"
  THEN [transcription |-> "failedText", hasData |-> TRUE, utterances |-> <<>>,
        provider |-> "none", error |-> TRUE]
  ELSE [transcription |-> "text", hasData |-> TRUE, utterances |-> tr.utterances,
        provider |-> tr.provider, error |-> FALSE]

\* textToCount is transcriptionResult.text, or the transcription object
\* when the text is empty; split is not a function of that object
SpeakingRateThrows(tr) == tr.provider # "none" /\ ~tr.text

\* the value returned by the outer catch (1560-1572)
CatchReturn ==
  [transcription |-> "failedText", hasData |-> FALSE, utterances |-> <<>>,
   provider |-> "error", error |-> TRUE]

NoReturn ==
  [transcription |-> "none", hasData |-> FALSE, utterances |-> <<>>,
   provider |-> "notReturned", error |-> FALSE]

SttStart(keys) ==
  /\ pc = "idle"
  /\ pc' = "stt_extract"
  /\ sttKeys' = keys
  /\ UNCHANGED <<transcriptionResult, invoked, sttOutcome, pollCount, audioReturn>>
  /\ UNCHANGED <<vidVars, faceVars, valVars, llmVars, reqVars, chatVars>>

\* ffmpeg audio extraction and reading the file; a failure goes to the
\* outer catch
ExtractAudio(ok) ==
  /\ pc = "stt_extract"
  /\ IF ok
     THEN pc' = "stt_gladia" /\ UNCHANGED audioReturn
     ELSE pc' = "stt_done" /\ audioReturn' = CatchReturn
  /\ UNCHANGED <<sttKeys, transcriptionResult, invoked, sttOutcome, pollCount>>
  /\ UNCHANGED <<vidVars, faceVars, valVars, llmVars, reqVars, chatVars>>

TryGladia ==
  /\ pc = "stt_gladia"
  /\ pc' = "stt_assemblyai"
  /\ IF "gladia" \in sttKeys
     THEN \E outcome \in GladiaOutcomes : Called("gladia", outcome)
     ELSE NotCalled
  /\ UNCHANGED <<sttKeys, pollCount, audioReturn>>
  /\ UNCHANGED <<vidVars, faceVars, valVars, llmVars, reqVars, chatVars>>

\* upload and submission to AssemblyAI
TryAssemblyAI ==
  /\ pc = "stt_assemblyai"
  /\ IF TryGuard("assemblyai")
     THEN \E outcome \in AssemblySubmitOutcomes :
            /\ invoked' = Append(invoked, "assemblyai")
            /\ sttOutcome' = [sttOutcome EXCEPT !["assemblyai"] = outcome]
            /\ pc' = IF outcome.kind = "submitted" THEN "stt_assembly_poll" ELSE "stt_deepgram"
     ELSE /\ pc' = "stt_deepgram"
          /\ UNCHANGED <<invoked, sttOutcome>>
  /\ pollCount' = 0
  /\ UNCHANGED <<sttKeys, transcriptionResult, audioReturn>>
  /\ UNCHANGED <<vidVars, faceVars, valVars, llmVars, reqVars, chatVars>>

\* the test of the for loop on its counter (i < 30)
AssemblyLoopContinues(i) == i < AssemblyMaxPolls

\* one evaluation of the poll loop: leave it when the counter is used up,
\* else poll once; the counter ends with the loop
AssemblyPoll ==
  /\ pc = "stt_assembly_poll"
  /\ IF ~AssemblyLoopContinues(pollCount)
     THEN /\ pc' = "stt_deepgram"
          /\ pollCount' = 0
          /\ sttOutcome' = [sttOutcome EXCEPT !["assemblyai"] = SttFail("pollExhausted")]
          /\ UNCHANGED transcriptionResult
     ELSE \E outcome \in AssemblyPollOutcomes :
            /\ IF outcome.kind \in {"notOk", "processing"}
               THEN /\ pollCount' = pollCount + 1
                    /\ UNCHANGED <<pc, sttOutcome, transcriptionResult>>
               ELSE /\ pc' = "stt_deepgram"
                    /\ pollCount' = 0
                    /\ sttOutcome' = [sttOutcome EXCEPT !["assemblyai"] = outcome]
                    /\ transcriptionResult' =
                         IF outcome.kind = "ok"
                         THEN TranscriptionBy("assemblyai", outcome)
                         ELSE transcriptionResult
  /\ UNCHANGED <<sttKeys, invoked, audioReturn>>
  /\ UNCHANGED <<vidVars, faceVars, valVars, llmVars, reqVars, chatVars>>

TryDeepgram ==
  /\ pc = "stt_deepgram"
  /\ pc' = "stt_whisper"
  /\ IF TryGuard("deepgram")
     THEN \E outcome \in DeepgramOutcomes : Called("deepgram", outcome)
     ELSE NotCalled
  /\ UNCHANGED <<sttKeys, pollCount, audioReturn>>
  /\ UNCHANGED <<vidVars, faceVars, valVars, llmVars, reqVars, chatVars>>

TryWhisper ==
  /\ pc = "stt_whisper"
  /\ pc' = "stt_cleanup"
  /\ IF TryGuard("openai_whisper")
     THEN \E outcome \in WhisperOutcomes : Called("openai_whisper", outcome)
     ELSE NotCalled
  /\ UNCHANGED <<sttKeys, pollCount, audioReturn>>
  /\ UNCHANGED <<vidVars, faceVars, valVars, llmVars, reqVars, chatVars>>

\* delete the audio file and return; an exception of the speaking-rate
\* computation is caught by the outer catch
SttReturn ==
  /\ pc = "stt_cleanup"
  /\ pc' = "stt_done"
  /\ audioReturn' = IF SpeakingRateThrows(transcriptionResult)
                    THEN CatchReturn
                    ELSE ChainReturn(transcriptionResult)
  /\ UNCHANGED <<sttKeys, transcriptionResult, invoked, sttOutcome, pollCount>>
  /\ UNCHANGED <<vidVars, faceVars, valVars, llmVars, reqVars, chatVars>>

SttNext ==
  \/ pc = "idle" /\ \E keys \in SUBSET TranscriptionProviders : SttStart(keys)
  \/ pc = "stt_extract" /\ \E ok \in BOOLEAN : ExtractAudio(ok)
  \/ TryGladia
  \/ TryAssemblyAI
  \/ AssemblyPoll
  \/ TryDeepgram
  \/ TryWhisper
  \/ SttReturn


\* ------------------------------------------------------------------------
\* analyzeVideoWithAzureIndexer
\* ------------------------------------------------------------------------
\* const maxRetries = 20
IndexerMaxRetries == 20

IndexerFailures ==
  {"noCredentials", "token", "upload", "failedState", "exhausted", "exception"}

\* variant of the function's catch that rethrows
IndexerCatchRethrows(failure) == IF failure = "noCredentials" THEN "null" ELSE "thrown"

\* the value returned when the run fails: null from the credential check
\* and null from the catch around everything else
IndexerCatch(failure) == "null"

\* every value the function can hand to its caller
IndexerReturns == {IndexerCatch(f) : f \in IndexerFailures} \cup {"insights"}

IndexerFail(failure) ==
  /\ pc' = "vi_done"
  /\ indexerFailure' = failure
  /\ azureVideoInsights' = IndexerCatch(failure)

IndexerStart(key) ==
  /\ pc = "idle"
  /\ indexerKey' = key
  /\ IF key
     THEN pc' = "vi_token" /\ UNCHANGED <<indexerFailure, azureVideoInsights>>
     ELSE IndexerFail("noCredentials")
  /\ UNCHANGED <<indexingRetries, indexerCalls>>
  /\ UNCHANGED <<faceVars, valVars, sttVars, llmVars, reqVars, chatVars>>

\* step 1: the access token
IndexerToken(outcome) ==
  /\ pc = "vi_token"
  /\ indexerCalls' = Append(indexerCalls, "token")
  /\ IF outcome = "ok"
     THEN pc' = "vi_upload" /\ UNCHANGED <<indexerFailure, azureVideoInsights>>
     ELSE IndexerFail(IF outcome = "notOk" THEN "token" ELSE "exception")
  /\ UNCHANGED <<indexerKey, indexingRetries>>
  /\ UNCHANGED <<faceVars, valVars, sttVars, llmVars, reqVars, chatVars>>

\* step 3: the upload
IndexerUpload(outcome) ==
  /\ pc = "vi_upload"
  /\ indexerCalls' = Append(indexerCalls, "upload")
  /\ indexingRetries' = 0
  /\ IF outcome = "ok"
     THEN pc' = "vi_poll" /\ UNCHANGED <<indexerFailure, azureVideoInsights>>
     ELSE IndexerFail(IF outcome = "notOk" THEN "upload" ELSE "exception")
  /\ UNCHANGED indexerKey
  /\ UNCHANGED <<faceVars, valVars, sttVars, llmVars, reqVars, chatVars>>

\* variant of the loop test that admits one more round
IndexerLoopContinuesInclusive(retries) == retries <= IndexerMaxRetries

\* the test of the while loop on its counter (indexingRetries < maxRetries)
IndexerLoopContinues(retries) == retries < IndexerMaxRetries

\* one evaluation of the while loop: leave it when the counter reached
\* maxRetries, else wait, ask for the state once and act on it
IndexerPoll ==
  /\ pc = "vi_poll"
  /\ IF ~IndexerLoopContinues(indexingRetries)
     THEN /\ IndexerFail("exhausted")
          /\ UNCHANGED <<indexingRetries, indexerCalls>>
     ELSE \E outcome \in {"Processed", "Unreadable", "Failed", "Processing", "notOk", "throw"} :
            IF outcome = "Processed"
            THEN /\ pc' = "vi_done"
                 /\ indexerCalls' = indexerCalls \o <<"state", "delete">>
                 /\ azureVideoInsights' = "insights"
                 /\ UNCHANGED <<indexingRetries, indexerFailure>>
            ELSE /\ indexerCalls' = Append(indexerCalls, "state")
                 /\ IF outcome \in {"Processing", "notOk"}
                    THEN /\ indexingRetries' = indexingRetries + 1
                         /\ UNCHANGED <<pc, indexerFailure, azureVideoInsights>>
                    ELSE /\ IndexerFail(IF outcome = "Failed" THEN "failedState"
                                        ELSE "exception")
                         /\ UNCHANGED indexingRetries
  /\ UNCHANGED indexerKey
  /\ UNCHANGED <<faceVars, valVars, sttVars, llmVars, reqVars, chatVars>>

IndexerNext ==
  \/ pc = "idle" /\ \E key \in BOOLEAN : IndexerStart(key)
  \/ pc = "vi_token" /\ \E outcome \in {"ok", "notOk", "throw"} : IndexerToken(outcome)
  \/ pc = "vi_upload" /\ \E outcome \in {"ok", "notOk", "throw"} : IndexerUpload(outcome)
  \/ IndexerPoll

\* ------------------------------------------------------------------------
\* getEnhancedPersonalityInsights, single-subject branch
\* ------------------------------------------------------------------------
\* the profile returned when no client at all is configured
ApiKeysRequiredProfile == NoCoreObject("apiKeysRequired")

\* the structure substituted when no response could be used
BasicFallback == NoCoreObject("basicFallback")

NoInsights == [kind |-> "none", peopleCount |-> 0, individualProfiles |-> <<>>,
               providerInfo |-> FALSE, groupDynamics |-> "undefined"]

Returned(count, profiles, info, group) ==
  [kind |-> "returned", peopleCount |-> count, individualProfiles |-> profiles,
   providerInfo |-> info, groupDynamics |-> group]

Thrown(message) ==
  [kind |-> message, peopleCount |-> 0, individualProfiles |-> <<>>,
   providerInfo |-> FALSE, groupDynamics |-> "undefined"]

Unsettled == [status |-> "pending", value |-> NoResponse]

\* Promise.allSettled: one entry per promise, with its status and value
AllSettled(promises, values) ==
  [p \in LLMProviders |->
     IF promises[p] = "fulfilled"
     THEN [status |-> "fulfilled", value |-> values[p]]
     ELSE [status |-> "rejected", value |-> NoResponse]]

\* the text of a fulfilled response parsed into finalInsights; {} is kept
\* when the text does not parse
ParseInto(result) ==
  IF result.value.kind = "parsed" THEN result.value.assessment ELSE EmptyObject

\* the if / else-if chain over the three settled results. Its third arm
\* (Perplexity fulfilled) reads anthropicResult.value, which a rejected
\* result does not have: the TypeError is caught and finalInsights stays
\* {}. The fourth arm repeats the third arm's condition and never runs.
SelectInsights(settled) ==
  IF settled["anthropic"].status = "fulfilled" THEN ParseInto(settled["anthropic"])
  ELSE IF settled["openai"].status = "fulfilled" THEN ParseInto(settled["openai"])
  ELSE EmptyObject

WithFallback(finalInsights) ==
  IF finalInsights.shape \in {"undefined", "empty"} THEN BasicFallback ELSE finalInsights

ProviderInfo(settled) ==
  /\ settled["openai"].status = "fulfilled"
  /\ \/ settled["anthropic"].status = "fulfilled"
     \/ settled["perplexity"].status = "fulfilled"

\* selection, fallback, validation, return; every throw is replaced by the
\* outer catch's error
SingleSubjectResult(settled) ==
  LET finalInsights == WithFallback(SelectInsights(settled))
  IN IF validateCoreAssessment(finalInsights).kind = "valid"
     THEN Returned(1, <<finalInsights>>, ProviderInfo(settled), "undefined")
     ELSE Thrown("failedInsights")

NoClientAvailable(clients) == clients = {}

\* getEnhancedPersonalityInsights is entered with a faceAnalysis that is
\* not an array
LLMStart(clients) ==
  /\ pc = "idle"
  /\ llmClients' = clients
  /\ IF NoClientAvailable(clients)
     THEN /\ pc' = "llm_done"
          /\ insights' = Returned(1, <<ApiKeysRequiredProfile>>, FALSE, "undefined")
          /\ UNCHANGED apiPromises
     ELSE /\ pc' = "llm_running"
          /\ apiPromises' = [p \in LLMProviders |->
                               IF p \in clients THEN "pending" ELSE "rejected"]
          /\ UNCHANGED insights
  /\ UNCHANGED <<apiValue, settledResults>>
  /\ UNCHANGED <<vidVars, faceVars, valVars, sttVars, reqVars, chatVars>>

LLMSettle(p, outcome) ==
  /\ pc = "llm_running"
  /\ apiPromises[p] = "pending"
  /\ apiPromises' = [apiPromises EXCEPT ![p] =
                       IF outcome.kind = "rejected" THEN "rejected" ELSE "fulfilled"]
  /\ apiValue' = [apiValue EXCEPT ![p] = outcome]
  /\ UNCHANGED <<pc, llmClients, settledResults, insights>>
  /\ UNCHANGED <<vidVars, faceVars, valVars, sttVars, reqVars, chatVars>>

\* await Promise.allSettled(apiPromises) and the rest of the branch
LLMSelect ==
  /\ pc = "llm_running"
  /\ \A p \in LLMProviders : apiPromises[p] # "pending"
  /\ pc' = "llm_done"
  /\ settledResults' = AllSettled(apiPromises, apiValue)
  /\ insights' = SingleSubjectResult(settledResults')
  /\ UNCHANGED <<llmClients, apiPromises, apiValue>>
  /\ UNCHANGED <<vidVars, faceVars, valVars, sttVars, reqVars, chatVars>>

LLMNext ==
  \/ pc = "idle" /\ \E clients \in SUBSET LLMClients : LLMStart(clients)
  \/ pc = "llm_running" /\ \E p \in LLMProviders :
       \E outcome \in CallOutcomes(p) : LLMSettle(p, outcome)
  \/ LLMSelect

\* ------------------------------------------------------------------------
\* getEnhancedPersonalityInsights, branch for an array of people
\* ------------------------------------------------------------------------
NoClient == [kind |-> "noClient", assessment |-> UndefinedResult]

\* the per-person call goes to OpenAI alone
PersonOutcomes(clients) ==
  IF "openai" \in clients THEN CallOutcomes("openai") ELSE {NoClient}

\* the profile the inner catch returns
MinimalProfile == NoCoreObject("minimalProfile")

\* one person's profile: the parsed and validated assessment, or the
\* minimal profile when the client is missing, the call rejects, the text
\* does not parse or the validator throws
PersonProfile(outcome) ==
  IF outcome.kind = "parsed" /\ validateCoreAssessment(outcome.assessment).kind = "valid"
  THEN outcome.assessment
  ELSE MinimalProfile

\* outcomes of the group-dynamics call, made for more than one profile
GroupOutcomes(clients, profiles) ==
  IF Len(profiles) > 1
  THEN IF "openai" \in clients THEN {"generated", "unavailable"} ELSE {"unavailable"}
  ELSE {"undefined"}

MultiPersonResult(people, outcomes, group) ==
  Returned(Len(people), [i \in 1..Len(people) |-> PersonProfile(outcomes[i])], FALSE, group)

\* ------------------------------------------------------------------------
\* registerRoutes: the POST routes in the order of their registration
\* ------------------------------------------------------------------------
Routes ==
  <<[path |-> "text", line |-> 1600], [path |-> "document", line |-> 2009],
    [path |-> "text", line |-> 2280], [path |-> "document", line |-> 2402],
    [path |-> "chat", line |-> 2537], [path |-> "analyze", line |-> 2697],
    [path |-> "chat", line |-> 3090]>>

\* variant of a handler that calls next() after it has answered
CallsNextWhenDone(k) == TRUE

\* does the handler of registration k pass control on: every handler is an
\* async (req, res) function, it has no next to call
CallsNext(k) == FALSE

RECURSIVE MatchingFrom(_, _)
\* the registrations of a path from position k on, in order
MatchingFrom(path, k) ==
  IF k > Len(Routes) THEN <<>>
  ELSE (IF Routes[k].path = path THEN <<k>> ELSE <<>>) \o MatchingFrom(path, k + 1)

RECURSIVE RunInTurn(_)
\* the router calls the first matching handler, and the next one only
\* when the handler before it called next()
RunInTurn(matching) ==
  IF matching = <<>> THEN <<>>
  ELSE IF CallsNext(Head(matching)) THEN <<Head(matching)>> \o RunInTurn(Tail(matching))
  ELSE <<Head(matching)>>

HandlersRun(path) == RunInTurn(MatchingFrom(path, 1))

\* ------------------------------------------------------------------------
\* POST /api/analyze
\* ------------------------------------------------------------------------
\* transcription results the handler may get for a video
AudioSamples ==
  {CatchReturn, ChainReturn(NoTranscription),
   ChainReturn(TranscriptionBy("gladia", SttOk(1, 0)))}

\* the configurations of language-model clients a request is run under
AnalyzeClientSets == {{}, {"anthropic"}, {"openai"}, LLMClients}

StoredAnalysis(mediaType, pi, audio) ==
  [mediaType |-> mediaType, peopleCount |-> pi.peopleCount,
   individualProfiles |-> pi.individualProfiles, audioProvider |-> audio.provider]

\* entries of callLog
Event(e) == [event |-> e, person |-> 0]
PersonEvent(e, i) == [event |-> e, person |-> i]

NoVideoAnalysis ==
  [provider |-> "none", segmentStart |-> 0, segmentDuration |-> 0, totalVideoDuration |-> 0]

\* variant that takes the requested duration as it is
RequestedDuration(requested, total, start) == requested

\* Math.min(videoSegmentDuration, videoDuration - videoSegmentStart)
ActualDuration(requested, total, start) == Min(requested, total - start)

AnalyzeRequest(body, clients) ==
  /\ pc = "idle"
  /\ reqBody' = body
  /\ llmClients' = clients
  /\ IF body.valid
     THEN pc' = "an_media" /\ UNCHANGED response
     ELSE pc' = "responded" /\ response' = ErrorResponse(400, "invalidBody", <<>>)
  /\ UNCHANGED <<faceSlots, faceAnalysis, audioTranscription, synthesized,
                 personalityInsights, analyses, callLog, tempFiles, videoAnalysis,
                 videoDuration, actualDuration, pendingPeople>>
  /\ UNCHANGED <<apiPromises, apiValue, settledResults, insights>>
  /\ handlerRun' = HandlersRun(body.route)
  /\ UNCHANGED <<messages, storeAtArrival>>
  /\ UNCHANGED <<vidVars, faceVars, valVars, sttVars>>

ProcessImage(slots) ==
  /\ pc = "an_media"
  /\ reqBody.mediaType = "image"
  /\ pc' = "an_insights"
  /\ faceSlots' = slots
  /\ faceAnalysis' = integrateMultiServiceResults(slots, reqBody.maxPeople)
  /\ callLog' = Append(callLog, Event("faceAnalysis"))
  /\ UNCHANGED <<reqBody, audioTranscription, synthesized, personalityInsights,
                 analyses, response, tempFiles, videoAnalysis, videoDuration,
                 actualDuration, pendingPeople>>
  /\ UNCHANGED <<chatVars, vidVars, faceVars, valVars, sttVars, llmVars>>

\* the inner catch of the video branch rethrows and the handler's catch
\* answers 400; no file is removed on that path
VideoFailed(files) ==
  /\ pc' = "responded"
  /\ response' = ErrorResponse(400, "failedVideo", <<>>)
  /\ tempFiles' = files

\* the video is written, its duration read, the segment cut and a frame
\* taken from it. how: "ok", or the ffmpeg run that fails
VideoSegment(total, how) ==
  /\ pc = "an_media"
  /\ reqBody.mediaType = "video"
  /\ videoDuration' = total
  /\ actualDuration' =
       ActualDuration(reqBody.videoSegmentDuration, total, reqBody.videoSegmentStart)
  /\ IF actualDuration' <= 0
     THEN VideoFailed({"video"}) /\ UNCHANGED callLog
     ELSE /\ callLog' = Append(callLog, Event("extractVideoSegment"))
          /\ IF how = "segmentFails" THEN VideoFailed({"video"})
             ELSE IF how = "frameFails" THEN VideoFailed({"video", "segment"})
             ELSE /\ pc' = "an_faces"
                  /\ tempFiles' = {"video", "segment", "frame"}
                  /\ UNCHANGED response
  /\ UNCHANGED <<reqBody, faceSlots, faceAnalysis, audioTranscription, synthesized,
                 personalityInsights, analyses, videoAnalysis, pendingPeople>>
  /\ UNCHANGED <<chatVars, vidVars, faceVars, valVars, sttVars, llmVars>>

\* face analysis of the frame
VideoFaces(slots) ==
  /\ pc = "an_faces"
  /\ pc' = "an_indexer"
  /\ faceSlots' = slots
  /\ faceAnalysis' = integrateMultiServiceResults(slots, reqBody.maxPeople)
  /\ callLog' = Append(callLog, Event("faceAnalysis"))
  /\ UNCHANGED <<reqBody, audioTranscription, synthesized, personalityInsights,
                 analyses, response, tempFiles, videoAnalysis, videoDuration,
                 actualDuration, pendingPeople>>
  /\ UNCHANGED <<chatVars, vidVars, faceVars, valVars, sttVars, llmVars>>

\* what the handler holds in azureVideoInsights: the function is called
\* only with the three settings present, and a throw of it is caught
HandlerInsights(key, returned) ==
  IF key /\ returned # "thrown" THEN returned ELSE "null"

\* the Video Indexer attempt and the videoAnalysis object
VideoIndexer(key, returned) ==
  /\ pc = "an_indexer"
  /\ pc' = "an_transcribe"
  /\ callLog' = Append(callLog,
       IF ~key THEN Event("indexerSkipped")
       ELSE IF returned = "insights" THEN Event("indexerInsights")
       ELSE Event("indexerFailed"))
  /\ videoAnalysis' =
       [provider |-> IF HandlerInsights(key, returned) = "insights"
                     THEN "azure_video_indexer" ELSE "basic",
        segmentStart |-> reqBody.videoSegmentStart,
        segmentDuration |-> actualDuration,
        totalVideoDuration |-> videoDuration]
  /\ UNCHANGED <<reqBody, faceSlots, faceAnalysis, audioTranscription, synthesized,
                 personalityInsights, analyses, response, tempFiles, videoDuration,
                 actualDuration, pendingPeople>>
  /\ UNCHANGED <<chatVars, vidVars, faceVars, valVars, sttVars, llmVars>>

\* extractAudioTranscription on the segment, then the three unlinks
VideoTranscribe(audio) ==
  /\ pc = "an_transcribe"
  /\ pc' = "an_insights"
  /\ audioTranscription' = audio
  /\ callLog' = Append(callLog, Event("transcription"))
  /\ tempFiles' = {}
  /\ UNCHANGED <<reqBody, faceSlots, faceAnalysis, synthesized, personalityInsights,
                 analyses, response, videoAnalysis, videoDuration, actualDuration,
                 pendingPeople>>
  /\ UNCHANGED <<chatVars, vidVars, faceVars, valVars, sttVars, llmVars>>

\* the calls issued while faceAnalysis.map runs: one per person, each up
\* to its first await
PersonCalls(n) == [i \in 1..n |-> PersonEvent("personCall", i)]

\* variant of the face analysis that hands over the person itself when
\* there is exactly one
LonePersonUnwrapped(people) == [isArray |-> Len(people) # 1, people |-> people]

\* the value the handler gets from comprehensiveMultiServiceFaceAnalysis
\* and passes on: the array of integrated persons, whatever its length
HandedFaceAnalysis(people) == [isArray |-> TRUE, people |-> people]

\* Array.isArray(faceAnalysis)
isMultiplePeople(handed) == handed.isArray

\* what the three providers of the single-subject branch may answer
SubjectAnswers(clients) ==
  {f \in [LLMProviders -> {Rejected} \cup {Parsed(CompleteAssessment(q)) : q \in LLMProviders}] :
     \A p \in LLMProviders :
       f[p] = Rejected \/ (p \in clients /\ f[p] = Parsed(CompleteAssessment(p)))}

\* the single-subject branch run to its end for one set of answers
SubjectInsights(f) ==
  SingleSubjectResult(
    AllSettled([p \in LLMProviders |-> IF f[p] = Rejected THEN "rejected" ELSE "fulfilled"], f))

\* getEnhancedPersonalityInsights up to await Promise.all: the placeholder
\* without any client; for an array one async function per person, which
\* throws into its own catch without the OpenAI client and calls OpenAI
\* with it; for a single object the branch that asks the three providers
StartInsights ==
  /\ pc = "an_insights"
  /\ LET handed == HandedFaceAnalysis(faceAnalysis)
     IN IF NoClientAvailable(llmClients)
        THEN /\ pc' = "an_persist"
             /\ personalityInsights' =
                  Returned(IF isMultiplePeople(handed) THEN Len(handed.people) ELSE 1,
                           <<ApiKeysRequiredProfile>>, FALSE, "undefined")
             /\ UNCHANGED <<synthesized, callLog, pendingPeople, response>>
        ELSE IF isMultiplePeople(handed)
        THEN /\ pc' = "an_people"
             /\ UNCHANGED <<personalityInsights, response>>
             /\ IF "openai" \in llmClients
                THEN /\ synthesized' = [i \in 1..Len(handed.people) |-> NoResponse]
                     /\ callLog' = callLog \o PersonCalls(Len(handed.people))
                     /\ pendingPeople' = 1..Len(handed.people)
                ELSE /\ synthesized' = [i \in 1..Len(handed.people) |-> NoClient]
                     /\ UNCHANGED <<callLog, pendingPeople>>
        ELSE \E f \in SubjectAnswers(llmClients) :
               /\ personalityInsights' = SubjectInsights(f)
               /\ callLog' = Append(callLog, Event("subjectCalls"))
               /\ IF personalityInsights'.kind = "returned"
                  THEN pc' = "an_persist" /\ UNCHANGED response
                  ELSE /\ pc' = "responded"
                       /\ response' = ErrorResponse(400, personalityInsights'.kind, <<>>)
               /\ UNCHANGED <<synthesized, pendingPeople>>
  /\ UNCHANGED <<reqBody, faceSlots, faceAnalysis, audioTranscription, analyses,
                 tempFiles, videoAnalysis, videoDuration, actualDuration>>
  /\ UNCHANGED <<chatVars, vidVars, faceVars, valVars, sttVars, llmVars>>

\* the answers of OpenAI a request is run against: every kind of answer
\* for an image, three kinds for a video
SettleOutcomes(mediaType, clients) ==
  IF mediaType = "image" THEN PersonOutcomes(clients)
  ELSE {Rejected, Parsed(CompleteAssessment("openai")), Parsed(MissingOneAssessment("openai"))}

\* one person's OpenAI call settles
PersonSettle(i, outcome) ==
  /\ pc = "an_people"
  /\ i \in pendingPeople
  /\ pendingPeople' = pendingPeople \ {i}
  /\ synthesized' = [synthesized EXCEPT ![i] = outcome]
  /\ callLog' = Append(callLog, PersonEvent("personSettled", i))
  /\ UNCHANGED <<pc, reqBody, faceSlots, faceAnalysis, audioTranscription,
                 personalityInsights, analyses, response, tempFiles, videoAnalysis,
                 videoDuration, actualDuration>>
  /\ UNCHANGED <<chatVars, vidVars, faceVars, valVars, sttVars, llmVars>>

\* variant that goes on as soon as the calls are issued
JoinsAtOnce(pending) == TRUE

\* await Promise.all(analysisPromises): no promise of it rejects, so it
\* fulfils when the last person's promise has settled
AllPeopleSettled(pending) == pending = {}

\* the rest of the branch: the group-dynamics call for more than one
\* profile, and the result
JoinPeople ==
  /\ pc = "an_people"
  /\ AllPeopleSettled(pendingPeople)
  /\ pc' = "an_persist"
  /\ \E group \in GroupOutcomes(llmClients, faceAnalysis) :
       personalityInsights' = MultiPersonResult(faceAnalysis, synthesized, group)
  /\ callLog' = IF Len(faceAnalysis) > 1 /\ "openai" \in llmClients
                THEN Append(callLog, Event("groupCall"))
                ELSE callLog
  /\ UNCHANGED <<reqBody, faceSlots, faceAnalysis, audioTranscription, synthesized,
                 analyses, response, tempFiles, videoAnalysis, videoDuration,
                 actualDuration, pendingPeople>>
  /\ UNCHANGED <<chatVars, vidVars, faceVars, valVars, sttVars, llmVars>>

\* the format of the first chat message: the group report for more than
\* one profile, the single report for one, else the "No personality
\* profiles could be generated" text
formattedContent(personality) ==
  IF Len(personality.individualProfiles) > 1 THEN "groupReport"
  ELSE IF Len(personality.individualProfiles) = 1 THEN "singleReport"
  ELSE "noProfiles"

\* createAnalysis, createMessage, res.json
AnalyzePersist ==
  /\ pc = "an_persist"
  /\ pc' = "responded"
  /\ analyses' = Append(analyses,
       StoredAnalysis(reqBody.mediaType, personalityInsights, audioTranscription))
  /\ response' = OkResponse
  /\ UNCHANGED <<reqBody, faceSlots, faceAnalysis, audioTranscription, synthesized,
                 personalityInsights, callLog, tempFiles, videoAnalysis, videoDuration,
                 actualDuration, pendingPeople>>
  /\ messages' = IF response'.status = 200 THEN Append(messages, "assistant") ELSE messages
  /\ UNCHANGED <<storeAtArrival, handlerRun>>
  /\ UNCHANGED <<vidVars, faceVars, valVars, sttVars, llmVars>>

AnalyzeNext ==
  \/ pc = "idle" /\ \E body \in AnalyzeBodies, clients \in AnalyzeClientSets :
       AnalyzeRequest(body, clients)
  \/ pc = "an_media" /\ \E slots \in FaceSamples(reqBody.maxPeople) : ProcessImage(slots)
  \/ pc = "an_media" /\ \E total \in 1..MaxVideoDuration,
                           how \in {"ok", "segmentFails", "frameFails"} :
       VideoSegment(total, how)
  \/ pc = "an_faces" /\ \E slots \in FaceSamples(reqBody.maxPeople) : VideoFaces(slots)
  \/ pc = "an_indexer" /\ \E key \in BOOLEAN, returned \in IndexerReturns :
       VideoIndexer(key, returned)
  \/ pc = "an_transcribe" /\ \E audio \in AudioSamples : VideoTranscribe(audio)
  \/ StartInsights
  \/ pc = "an_people" /\ \E i \in pendingPeople :
       \E outcome \in SettleOutcomes(reqBody.mediaType, llmClients) : PersonSettle(i, outcome)
  \/ JoinPeople
  \/ AnalyzePersist

\* ------------------------------------------------------------------------
\* POST /api/analyze/text and POST /api/analyze/document
\* ------------------------------------------------------------------------
\* does the handler test the selected model's client before using it
ChecksClient(route, model) ==
  model \in LLMProviders \/ (route = "text" /\ model = "deepseek")

\* aiModel: the selected model, or the first of OpenAI, Anthropic,
\* Perplexity that is configured when the selected one is not
AiModel(route, selected, clients) ==
  IF ChecksClient(route, selected) /\ selected \notin clients
  THEN IF "openai" \in clients THEN "openai"
       ELSE IF "anthropic" \in clients THEN "anthropic"
       ELSE IF "perplexity" \in clients THEN "perplexity"
       ELSE "unavailable"
  ELSE selected

ValidationError(result) == ErrorResponse(500, result.kind, result.missingFields)

SinglePersonInsights(profile) == Returned(1, <<profile>>, FALSE, "undefined")

TextRequest(body, clients) ==
  /\ pc = "idle"
  /\ reqBody' = body
  /\ llmClients' = clients
  /\ IF ~body.valid
     THEN pc' = "responded" /\ response' = ErrorResponse(400, "invalidBody", <<>>)
     ELSE IF AiModel("text", body.selectedModel, clients) = "unavailable"
     THEN pc' = "responded" /\ response' = ErrorResponse(503, "noModels", <<>>)
     ELSE pc' = "text_llm" /\ UNCHANGED response
  /\ UNCHANGED <<faceSlots, faceAnalysis, audioTranscription, synthesized,
                 personalityInsights, analyses, callLog, tempFiles, videoAnalysis,
                 videoDuration, actualDuration, pendingPeople>>
  /\ UNCHANGED <<apiPromises, apiValue, settledResults, insights>>
  /\ handlerRun' = HandlersRun(body.route)
  /\ UNCHANGED <<messages, storeAtArrival>>
  /\ UNCHANGED <<vidVars, faceVars, valVars, sttVars>>

\* the structure built when the model's text does not parse
ParseFallback == NoCoreObject("parseFallback")

\* analysisResult of the text handler; no arm of the handler serves
\* deepseek, which leaves analysisResult undefined
TextAnalysisResult(outcome) ==
  IF outcome.kind = "parsed" THEN outcome.assessment
  ELSE IF outcome.kind = "unparsable" THEN ParseFallback
  ELSE UndefinedResult

TextOutcomes(aiModel) == IF aiModel \in LLMProviders THEN CallOutcomes(aiModel) ELSE {NoResponse}

\* the model call, validation, createAnalysis, createMessage, res.json
TextAnalyze ==
  /\ pc = "text_llm"
  /\ pc' = "responded"
  /\ \E outcome \in TextOutcomes(AiModel("text", reqBody.selectedModel, llmClients)) :
       /\ synthesized' = <<outcome>>
       /\ callLog' = IF outcome = NoResponse THEN callLog
                     ELSE Append(callLog, Event("modelCall"))
       /\ IF outcome.kind = "rejected"
          THEN /\ response' = ErrorResponse(500, "providerError", <<>>)
               /\ UNCHANGED <<personalityInsights, analyses>>
          ELSE LET analysisResult == TextAnalysisResult(outcome)
                   checked == validateCoreAssessment(analysisResult)
               IN IF checked.kind = "valid"
                  THEN /\ personalityInsights' = SinglePersonInsights(analysisResult)
                       /\ analyses' = Append(analyses,
                            StoredAnalysis("text", personalityInsights', audioTranscription))
                       /\ response' = OkResponse
                  ELSE /\ response' = ValidationError(checked)
                       /\ UNCHANGED <<personalityInsights, analyses>>
  /\ UNCHANGED <<reqBody, faceSlots, faceAnalysis, audioTranscription, tempFiles,
                 videoAnalysis, videoDuration, actualDuration, pendingPeople>>
  /\ messages' = IF response'.status = 200 THEN Append(messages, "assistant") ELSE messages
  /\ UNCHANGED <<storeAtArrival, handlerRun>>
  /\ UNCHANGED <<vidVars, faceVars, valVars, sttVars, llmVars>>

\* the document is written to the temp directory before the model is chosen
DocumentRequest(body, clients) ==
  /\ pc = "idle"
  /\ reqBody' = body
  /\ llmClients' = clients
  /\ IF ~body.valid
     THEN pc' = "responded" /\ response' = ErrorResponse(400, "invalidBody", <<>>)
     ELSE IF AiModel("document", body.selectedModel, clients) = "unavailable"
     THEN pc' = "responded" /\ response' = ErrorResponse(503, "noModels", <<>>)
     ELSE pc' = "doc_llm" /\ UNCHANGED response
  /\ tempFiles' = IF body.valid THEN {"document"} ELSE {}
  /\ UNCHANGED <<faceSlots, faceAnalysis, audioTranscription, synthesized,
                 personalityInsights, analyses, callLog, videoAnalysis,
                 videoDuration, actualDuration, pendingPeople>>
  /\ UNCHANGED <<apiPromises, apiValue, settledResults, insights>>
  /\ handlerRun' = HandlersRun(body.route)
  /\ UNCHANGED <<messages, storeAtArrival>>
  /\ UNCHANGED <<vidVars, faceVars, valVars, sttVars>>

\* the profile the document handler builds from analysisResult: summary,
\* personality_core, thought_patterns, emotional_tendencies,
\* communication_style
DocumentProjection == NoCoreObject("documentProjection")

\* does building the profile throw: analysisResult is undefined, the text
\* did not parse (only the Perplexity arm catches that), or the parsed
\* object has no detailed_analysis
ProjectionThrows(aiModel, outcome) ==
  \/ outcome.kind \in {"none", "rejected"}
  \/ outcome.kind = "unparsable" /\ aiModel # "perplexity"
  \/ outcome.kind = "parsed" /\ outcome.assessment.shape \in {"undefined", "empty"}

\* the model call, the profile, createAnalysis, createMessage, res.json
DocumentAnalyze ==
  /\ pc = "doc_llm"
  /\ pc' = "responded"
  /\ LET aiModel == AiModel("document", reqBody.selectedModel, llmClients)
     IN \E outcome \in TextOutcomes(aiModel) :
          /\ synthesized' = <<outcome>>
          /\ callLog' = IF outcome = NoResponse THEN callLog
                        ELSE Append(callLog, Event("modelCall"))
          /\ IF ProjectionThrows(aiModel, outcome)
             THEN /\ response' = ErrorResponse(500, "handlerError", <<>>)
                  /\ UNCHANGED <<personalityInsights, analyses, tempFiles>>
             ELSE /\ personalityInsights' = SinglePersonInsights(DocumentProjection)
                  /\ analyses' = Append(analyses,
                       StoredAnalysis("document", personalityInsights', audioTranscription))
                  /\ response' = OkResponse
                  /\ tempFiles' = {}
  /\ UNCHANGED <<reqBody, faceSlots, faceAnalysis, audioTranscription, videoAnalysis,
                 videoDuration, actualDuration, pendingPeople>>
  /\ messages' = IF response'.status = 200 THEN Append(messages, "assistant") ELSE messages
  /\ UNCHANGED <<storeAtArrival, handlerRun>>
  /\ UNCHANGED <<vidVars, faceVars, valVars, sttVars, llmVars>>

TextNext ==
  \/ pc = "idle" /\ \E body \in TextBodies, clients \in SUBSET LLMClients :
       TextRequest(body, clients)
  \/ TextAnalyze

DocumentNext ==
  \/ pc = "idle" /\ \E body \in DocumentBodies, clients \in SUBSET LLMClients :
       DocumentRequest(body, clients)
  \/ DocumentAnalyze

\* ------------------------------------------------------------------------
\* POST /api/chat (the handler registered first)
\* ------------------------------------------------------------------------
\* bodies of POST /api/chat; valid: content and sessionId present
ChatBodies ==
  {[route |-> "chat", mediaType |-> "chat", maxPeople |-> 0, selectedModel |-> sm,
    valid |-> v] : sm \in LLMClients, v \in BOOLEAN}

\* what the session holds when a chat request arrives: nothing, the
\* report of an analysis, or that and one earlier exchange
StoredMessages == {<<>>, <<"assistant">>, <<"assistant", "user", "assistant">>}

\* the arms of the model choice: the selected model is one of the three
\* and its client or key is there
ChatModelAvailable(selected, clients) == selected \in LLMProviders /\ selected \in clients

\* input checks, getMessagesBySessionId, createMessage of the user message
ChatRequest(body, clients, stored) ==
  /\ pc = "idle"
  /\ reqBody' = body
  /\ llmClients' = clients
  /\ storeAtArrival' = stored
  /\ handlerRun' = HandlersRun(body.route)
  /\ IF ~body.valid
     THEN /\ pc' = "responded"
          /\ response' = ErrorResponse(400, "invalidBody", <<>>)
          /\ messages' = stored
     ELSE /\ pc' = "chat_llm"
          /\ messages' = Append(stored, "user")
          /\ UNCHANGED response
  /\ UNCHANGED <<faceSlots, faceAnalysis, audioTranscription, synthesized,
                 personalityInsights, analyses, callLog, tempFiles, videoAnalysis,
                 videoDuration, actualDuration, pendingPeople>>
  /\ UNCHANGED <<apiPromises, apiValue, settledResults, insights>>
  /\ UNCHANGED <<vidVars, faceVars, valVars, sttVars>>

\* the model call, createMessage of the reply, res.json; 503 when no arm
\* serves the selected model, the catch's 500 when the call rejects
ChatReply ==
  /\ pc = "chat_llm"
  /\ pc' = "responded"
  /\ IF ChatModelAvailable(reqBody.selectedModel, llmClients)
     THEN /\ callLog' = Append(callLog, Event("modelCall"))
          /\ \E answered \in BOOLEAN :
               IF answered
               THEN /\ messages' = Append(messages, "assistant")
                    /\ response' = OkResponse
               ELSE /\ response' = ErrorResponse(500, "providerError", <<>>)
                    /\ UNCHANGED messages
     ELSE /\ response' = ErrorResponse(503, "noModels", <<>>)
          /\ UNCHANGED <<messages, callLog>>
  /\ UNCHANGED <<reqBody, faceSlots, faceAnalysis, audioTranscription, synthesized,
                 personalityInsights, analyses, tempFiles, videoAnalysis,
                 videoDuration, actualDuration, pendingPeople>>
  /\ UNCHANGED <<storeAtArrival, handlerRun>>
  /\ UNCHANGED <<vidVars, faceVars, valVars, sttVars, llmVars>>

ChatNext ==
  \/ pc = "idle" /\ \E body \in ChatBodies, clients \in SUBSET LLMClients,
                       stored \in StoredMessages :
       ChatRequest(body, clients, stored)
  \/ ChatReply

\* ------------------------------------------------------------------------
\* Properties of the language-model fan-out
\* ------------------------------------------------------------------------
\* Anthropic, then OpenAI, then Perplexity
LLMPreference == <<"anthropic", "openai", "perplexity">>

\* the call of p fulfilled with a response that parses to an assessment
\* the validator accepts
Usable(p) ==
  /\ apiPromises[p] = "fulfilled"
  /\ apiValue[p].kind = "parsed"
  /\ validateCoreAssessment(apiValue[p].assessment).kind = "valid"

FirstUsable ==
  LET ks == {k \in 1..Len(LLMPreference) : Usable(LLMPreference[k])}
  IN LLMPreference[CHOOSE k \in ks : \A j \in ks : k <= j]

FanOutRan == pc = "llm_done" /\ ~NoClientAvailable(llmClients)

\* C10: when at least one of the three providers returned a response that
\* parses to a complete assessment, the synthesis succeeds and its profile
\* is the assessment of the first such provider in the preference order.
C10_FirstUsableIsCanonical ==
  (FanOutRan /\ \E p \in LLMProviders : Usable(p)) =>
     /\ insights.kind = "returned"
     /\ insights.individualProfiles = <<apiValue[FirstUsable].assessment>>

\* ------------------------------------------------------------------------
\* Properties of the transcription chain
\* ------------------------------------------------------------------------
OrderIndex(p) == CHOOSE k \in 1..Len(TranscriptionOrder) : TranscriptionOrder[k] = p

WasInvoked(p) == \E k \in 1..Len(invoked) : invoked[k] = p

Succeeded(p) == sttOutcome[p].kind = "ok"

\* the call of p has ended without an accepted transcript
Failed(p) == WasInvoked(p) /\ sttOutcome[p].kind \notin {"ok", "none", "submitted"}

FirstSucceeded ==
  LET oks == {k \in 1..Len(TranscriptionOrder) : Succeeded(TranscriptionOrder[k])}
  IN IF oks = {} THEN "none"
     ELSE TranscriptionOrder[CHOOSE k \in oks : \A j \in oks : k <= j]

\* C9: providers are invoked in the order Gladia, AssemblyAI, Deepgram,
\* Whisper; only when configured and when every earlier provider failed
\* or is not configured; never after a success; and the returned provider
\* and utterances are those of the first provider that succeeded.
C9_SequentialUntilSuccess ==
  /\ \A i \in 1..Len(invoked), j \in 1..Len(invoked) :
       i < j => OrderIndex(invoked[i]) < OrderIndex(invoked[j])
  /\ \A p \in TranscriptionProviders :
       WasInvoked(p) =>
         /\ p \in sttKeys
         /\ \A q \in TranscriptionProviders :
              OrderIndex(q) < OrderIndex(p) => (q \notin sttKeys \/ Failed(q))
  /\ (pc = "stt_done" /\ audioReturn.provider \notin {"none", "error"}) =>
       /\ audioReturn.provider = FirstSucceeded
       /\ audioReturn.utterances = UtterancesOf(FirstSucceeded, sttOutcome[FirstSucceeded])
  /\ (pc = "stt_done" /\ FirstSucceeded # "none") => audioReturn.provider = FirstSucceeded

\* C19 (as stated): every value returned by extractAudioTranscription
\* whose speechAnalysis.provider is not "none" carries
\* transcriptionData.utterances with at least one element.
C19_UtterancesUnlessNone ==
  (pc = "stt_done" /\ audioReturn.provider # "none") =>
    /\ audioReturn.hasData
    /\ Len(audioReturn.utterances) >= 1

\* C19 (amended): every value returned by extractAudioTranscription whose
\* speechAnalysis.provider names one of the four transcription providers
\* carries transcriptionData.utterances with at least one element, whether
\* or not the provider's response had a segmentation.
C19_UtterancesForProviders ==
  (pc = "stt_done" /\ audioReturn.provider \in TranscriptionProviders) =>
    /\ audioReturn.hasData
    /\ Len(audioReturn.utterances) >= 1

\* Deepgram answered with a transcript that has neither paragraphs nor
\* sentences, and the value returned holds the single full-text utterance
C19_Witness ==
  /\ pc = "stt_done"
  /\ audioReturn.provider = "deepgram"
  /\ sttOutcome["deepgram"] = SttOk(0, 0)
  /\ audioReturn.utterances = UtteranceList("deepgram", 1, "fullText")

\* ------------------------------------------------------------------------
\* Properties of the face fan-out and the integrator
\* ------------------------------------------------------------------------
PreferenceOrder == <<"facepp", "azure_face", "google_vision", "aws_rekognition">>

ReturnedFaces(ar, p) == IF ar[p].kind = "list" THEN ar[p].faces ELSE <<>>

NonEmptyProviders(ar) == {p \in FaceProviders : Len(ReturnedFaces(ar, p)) > 0}

\* first provider of the preference order that returned a non-empty list
FirstNonEmpty(ar) ==
  LET idxs == {k \in 1..Len(PreferenceOrder) : PreferenceOrder[k] \in NonEmptyProviders(ar)}
  IN IF idxs = {} THEN "none"
     ELSE PreferenceOrder[CHOOSE k \in idxs : \A j \in idxs : k <= j]

\* provider whose list seeded the integrated persons
SeedProvider(people) == IF Len(people) = 0 THEN "none" ELSE people[1].boundingBox.src

AvailableFlag(person, p) ==
  CASE p = "facepp" -> person.serviceStatus.facepp_available
    [] p = "azure_face" -> person.serviceStatus.azure_face_available
    [] p = "google_vision" -> person.serviceStatus.google_vision_available
    [] p = "aws_rekognition" -> person.serviceStatus.aws_rekognition_available

\* C5 (as stated): whenever some provider returned a non-empty face list,
\* the integrated sequence is non-empty and seeded, person by person, from
\* the first such provider in the order Face++ > Azure > Google > AWS.
C5_PrimaryIsFirstNonEmpty ==
  pc = "face_done" =>
    LET p == FirstNonEmpty(analysisResults)
    IN p # "none" =>
         /\ Len(integratedResults) > 0
         /\ \A i \in 1..Len(integratedResults) :
              /\ i <= Len(analysisResults[p].faces)
              /\ integratedResults[i].boundingBox = analysisResults[p].faces[i]

\* person i carries provider B's i-th observation
CarriesObservation(people, ar, B, i) ==
  /\ i <= Len(ReturnedFaces(ar, B))
  /\ people[i].multiServiceData[B] = ar[B].faces[i]

\* C6 (as stated): with primary A (the provider whose n faces seeded the
\* persons), another provider B that returned m faces and a third provider
\* C that errored, there are
\* min(n, maxPeople) persons, person i carries B's observation exactly for
\* the first min(m, n, maxPeople) persons, and C's flag is false everywhere.
C6_SecondaryAttachedByIndex ==
  pc = "face_done" =>
    LET A == SeedProvider(integratedResults)
    IN \A B \in FaceProviders \ {A}, C \in FaceProviders \ {A} :
         (A # "none" /\ B # C /\ analysisResults[B].kind = "list"
            /\ analysisResults[C].kind = "error") =>
           LET n == Len(analysisResults[A].faces)
               m == Len(analysisResults[B].faces)
           IN /\ Len(integratedResults) = Min(n, maxPeople)
              /\ \A i \in 1..Len(integratedResults) :
                   /\ (i <= Min(m, Min(n, maxPeople))) <=>
                        CarriesObservation(integratedResults, analysisResults, B, i)
                   /\ (i > Min(m, Min(n, maxPeople))) =>
                        integratedResults[i].multiServiceData[B] = NoFace
                   /\ ~AvailableFlag(integratedResults[i], C)

\* C22 (as stated): whichever provider seeded the persons, every other
\* provider that returned a face list, AWS Rekognition included, has its
\* i-th observation on person i for every i within both lists.
C22_EveryReturnedListAttached ==
  pc = "face_done" =>
    LET A == SeedProvider(integratedResults)
    IN A # "none" =>
         \A B \in FaceProviders \ {A} :
           analysisResults[B].kind = "list" =>
             \A i \in 1..Min(Len(integratedResults), Len(analysisResults[B].faces)) :
               CarriesObservation(integratedResults, analysisResults, B, i)

\* the slots as a function of what each started call returned, whatever
\* the order of the answers
SlotsOfOutcomes(promises, outcomes) ==
  [p \in FaceProviders |->
     IF promises[p] = "none" THEN NullSlot ELSE SlotWritten(outcomes[p])]

\* C25: a step of the fan-out changes at most one slot, the slot of the
\* provider whose call settles in that step and that was not written
\* before; integration starts with no call pending, and its result is a
\* function of what the calls returned, not of the order of the answers.
C25_OwnSlotOnceThenIntegrate ==
  [][/\ \A p \in FaceProviders :
          analysisResults'[p] # analysisResults[p] =>
            /\ pc = "face_running"
            /\ analysisResults[p] = NullSlot
            /\ callOutcome[p] = NoOutcome
            /\ callOutcome'[p] \notin {NoOutcome, HangOutcome}
            /\ \A q \in FaceProviders \ {p} : analysisResults'[q] = analysisResults[q]
     /\ (pc = "face_running" /\ pc' = "face_done") =>
          /\ \A p \in FaceProviders : servicePromises[p] # "pending"
          /\ integratedResults' =
               integrateMultiServiceResults(
                 SlotsOfOutcomes(servicePromises, callOutcome), maxPeople)]_vars

\* two providers answered with faces, in either order, and the persons
\* were integrated
C25_Witness ==
  /\ pc = "face_done"
  /\ Len(integratedResults) > 0
  /\ Cardinality({p \in FaceProviders : Len(ReturnedFaces(analysisResults, p)) > 0}) >= 2

\* C7: the integrator never returns more persons than
\* min(length of the list that seeded them, maxPeople).
C7_CountBoundedByPrimaryAndMax ==
  pc = "face_done" =>
    LET p == SeedProvider(integratedResults)
    IN p # "none" =>
         Len(integratedResults) <= Min(Len(ReturnedFaces(analysisResults, p)), maxPeople)

\* the primary list is longer than maxPeople and was cut to maxPeople
C7_Witness ==
  /\ pc = "face_done"
  /\ SeedProvider(integratedResults) # "none"
  /\ Len(ReturnedFaces(analysisResults, SeedProvider(integratedResults))) > maxPeople
  /\ Len(integratedResults) = maxPeople

\* ------------------------------------------------------------------------
\* Properties of the two fan-outs together
\* ------------------------------------------------------------------------
ReturnedData(outcome) == outcome.kind \in {"list", "object"}

\* C4: in the face fan-out and in the language-model fan-out a call that
\* throws or rejects never aborts the join, and what every other call
\* returned is in the slot (face) or settled entry (language model) that
\* the integration or selection step reads.
C4_FailureNeverDropsOthers ==
  /\ pc # "face_rejected"
  /\ pc = "face_done" =>
       \A p \in FaceProviders :
         ReturnedData(callOutcome[p]) => analysisResults[p] = callOutcome[p]
  /\ FanOutRan =>
       \A p \in LLMProviders :
         apiPromises[p] = "fulfilled" =>
           settledResults[p] = [status |-> "fulfilled", value |-> apiValue[p]]

\* Azure Face threw, Face++ and Google Vision returned faces, and the
\* integrator ran on both
C4_Witness ==
  /\ pc = "face_done"
  /\ callOutcome["azure_face"].kind = "throw"
  /\ analysisResults["facepp"] = ListSlot("facepp", MaxFaces)
  /\ analysisResults["google_vision"] = ListSlot("google_vision", 1)
  /\ Len(integratedResults) > 0

\* ------------------------------------------------------------------------
\* Properties of the requests
\* ------------------------------------------------------------------------
Passes(profile) == validateCoreAssessment(profile).kind = "valid"

\* C1: every profile of every stored analysis passed the validator.
C1_OnlyValidatedPersisted ==
  \A k \in 1..Len(analyses) :
    \A i \in 1..Len(analyses[k].individualProfiles) :
      Passes(analyses[k].individualProfiles[i])

\* the capabilities of one /api/analyze request whose every provider failed
FaceAnalysisFailed == \A p \in FaceProviders : faceSlots[p] = ErrorSlot

TranscriptionFailed == reqBody.mediaType = "video" /\ audioTranscription.provider = "none"

SynthesisFailed ==
  /\ Len(synthesized) > 0
  /\ \A i \in 1..Len(synthesized) : synthesized[i].kind = "rejected"

\* C2: a request in which every provider of a capability failed ends in an
\* error response and stores nothing.
C2_AllFailedSurfacesError ==
  (reqBody.route = "analyze" /\ pc \in {"an_persist", "responded"}
     /\ (FaceAnalysisFailed \/ TranscriptionFailed \/ SynthesisFailed)) =>
       /\ analyses = <<>>
       /\ pc = "responded" => response.status >= 400

\* what the validator says of the i-th synthesized assessment
Verdict(i) ==
  IF synthesized[i].kind = "parsed"
  THEN validateCoreAssessment(synthesized[i].assessment)
  ELSE NotValidated

\* C3: when the validator found the missing fields M in a synthesized
\* assessment, the response is an error that lists exactly M, in the text
\* flow and in the image / video flow.
C3_MissingFieldsListed ==
  (pc = "responded" /\ reqBody.route \in {"analyze", "text"}) =>
    \A i \in 1..Len(synthesized) :
      Verdict(i).kind = "incomplete" =>
        /\ response.status >= 400
        /\ response.error = "incomplete"
        /\ response.fields = Verdict(i).missingFields

\* C11: with no language-model client configured, every valid analysis
\* request (image, video, text, document) ends with status 503 and has made
\* no call to any provider.
C11_NoClientMeansUnavailable ==
  (pc = "responded" /\ reqBody.valid /\ llmClients = {}) =>
    /\ response.status = 503
    /\ callLog = <<>>

\* rekognition.send was reached: analyzeFaces goes straight to it when no
\* keyed provider is configured, and it throws from nowhere else
RekognitionCalled ==
  /\ servicePromises["aws_rekognition"] # "none"
  /\ \/ faceKeys \cap KeyedFaceProviders = {}
     \/ callOutcome["aws_rekognition"] = ThrowOutcome

\* C12: a provider whose credential is absent is never called: the face
\* providers, the transcription providers, the Video Indexer and the
\* language-model providers.
C12_NoCallWithoutCredential ==
  /\ \A p \in KeyedFaceProviders : servicePromises[p] # "none" => p \in faceKeys
  /\ RekognitionCalled => "aws_rekognition" \in faceKeys
  /\ \A k \in 1..Len(invoked) : invoked[k] \in sttKeys
  /\ indexerCalls # <<>> => indexerKey
  /\ \A p \in LLMProviders : apiPromises[p] # "none" => p \in llmClients
  /\ \A k \in 1..Len(callLog) :
       callLog[k].event \in {"personCall", "groupCall"} => "openai" \in llmClients

Before(j, k) == j < k

\* C13: within one /api/analyze request a synthesis call is issued only
\* after the face analysis and, for a video, the transcription have
\* completed, and the group-dynamics call only after every per-person call
\* has settled.
C13_SynthesisAfterInputs ==
  \A k \in 1..Len(callLog) :
    /\ callLog[k].event \in {"personCall", "groupCall"} =>
         /\ \E j \in 1..Len(callLog) : Before(j, k) /\ callLog[j].event = "faceAnalysis"
         /\ reqBody.mediaType = "video" =>
              \E j \in 1..Len(callLog) : Before(j, k) /\ callLog[j].event = "transcription"
    /\ callLog[k].event = "groupCall" =>
         \A j \in 1..Len(callLog) :
           callLog[j].event = "personCall" =>
             \E m \in 1..Len(callLog) :
               /\ Before(j, m) /\ Before(m, k)
               /\ callLog[m] = PersonEvent("personSettled", callLog[j].person)

\* a video with two people whose second call settled before the first, and
\* the group-dynamics call after both
C13_Witness ==
  /\ pc = "responded"
  /\ reqBody.mediaType = "video"
  /\ Len(faceAnalysis) = 2
  /\ \E k \in 1..Len(callLog) : callLog[k].event = "groupCall"
  /\ \E j \in 1..Len(callLog), m \in 1..Len(callLog) :
       /\ Before(j, m)
       /\ callLog[j] = PersonEvent("personSettled", 2)
       /\ callLog[m] = PersonEvent("personSettled", 1)

\* C14: when a request has been answered, no temporary file of it is left.
C14_TempFilesRemoved == pc = "responded" => tempFiles = {}

\* C16: the segment analysed lasts min(videoSegmentDuration, total -
\* videoSegmentStart); when that is not positive the request ends with
\* status 400 without a segment extraction or a provider call.
C16_SegmentClamped ==
  /\ videoAnalysis.provider # "none" =>
       LET rest == videoAnalysis.totalVideoDuration - videoAnalysis.segmentStart
       IN /\ videoAnalysis.segmentDuration =
               (IF reqBody.videoSegmentDuration <= rest
                THEN reqBody.videoSegmentDuration ELSE rest)
          /\ videoAnalysis.segmentDuration > 0
  /\ (reqBody.mediaType = "video" /\ videoDuration > 0
        /\ videoDuration - reqBody.videoSegmentStart <= 0) =>
       /\ pc = "responded"
       /\ response.status = 400
       /\ callLog = <<>>
       /\ videoAnalysis = NoVideoAnalysis

\* a segment that starts at the end of the video: answered with 400
C16_Witness ==
  /\ pc = "responded"
  /\ reqBody.mediaType = "video"
  /\ videoDuration > 0
  /\ videoDuration = reqBody.videoSegmentStart
  /\ response.status = 400

\* C17: on every analysis endpoint a synthesized assessment that the
\* validator does not accept is answered with status 500 and the
\* validator's message.
C17_ValidationFailureIs500 ==
  (pc = "responded" /\ reqBody.valid) =>
    \A i \in 1..Len(synthesized) :
      Verdict(i).kind \in {"incomplete", "noCore"} =>
        /\ response.status = 500
        /\ response.error = Verdict(i).kind

\* C18: no provider adapter throws to its caller: analyzeFaces /
\* analyzeFaceWithRekognition returns a failure value, and a failed model
\* call of a route handler is a value, not an exception that ends the
\* handler.
C18_NoAdapterThrows ==
  /\ callOutcome["aws_rekognition"] # ThrowOutcome
  /\ response.error # "providerError"

\* the persons whose synthesis returned a validated assessment
ValidatedPeople ==
  {i \in 1..Len(synthesized) :
     synthesized[i].kind = "parsed" /\ Passes(synthesized[i].assessment)}

GroupCallIssued == \E k \in 1..Len(callLog) : callLog[k] = Event("groupCall")

\* C23 (as stated): the group-dynamics call is issued exactly when more
\* than one per-subject synthesis returned a validated assessment, and the
\* profiles it is given are those validated assessments only.
C23_GroupCallIffTwoSucceeded ==
  (reqBody.route = "analyze" /\ pc \in {"an_persist", "responded"}) =>
    /\ GroupCallIssued <=> Cardinality(ValidatedPeople) > 1
    /\ GroupCallIssued =>
         \A i \in 1..Len(personalityInsights.individualProfiles) :
           Passes(personalityInsights.individualProfiles[i])

\* C28 (as stated): every object getEnhancedPersonalityInsights returns,
\* to a request or to a direct caller, has peopleCount equal to the number
\* of its individualProfiles.
C28_PeopleCountIsProfileCount ==
  /\ personalityInsights.kind = "returned" =>
       personalityInsights.peopleCount = Len(personalityInsights.individualProfiles)
  /\ insights.kind = "returned" =>
       insights.peopleCount = Len(insights.individualProfiles)

\* the language-model calls a text or document request made
ModelCalls == Cardinality({k \in 1..Len(callLog) : callLog[k] = Event("modelCall")})

\* C26 (as stated): a text request that passes the input checks and is not
\* answered 503 makes exactly one language-model call, and analysisResult
\* is defined when the validator runs on it.
C26_TextRequestCallsOneModel ==
  (reqBody.route = "text" /\ reqBody.valid /\ pc = "responded"
     /\ response.status # 503) =>
       /\ ModelCalls = 1
       /\ synthesized[1].kind # "rejected" =>
            TextAnalysisResult(synthesized[1]) # UndefinedResult

NoFaceReturned(slots) == \A p \in FaceProviders : Len(ReturnedFaces(slots, p)) = 0

PersonCallIssued == \E k \in 1..Len(callLog) : callLog[k].event = "personCall"

\* C24 (as stated): an image request in which no face provider returned a
\* face gets the empty sequence from the integrator, issues no per-person
\* call and is answered 200 with the "no profiles could be generated" report.
C24_NoFaceIsNoProfileReport ==
  (reqBody.route = "analyze" /\ reqBody.mediaType = "image" /\ reqBody.valid
     /\ pc \in {"an_insights", "an_people", "an_persist", "responded"}
     /\ NoFaceReturned(faceSlots)) =>
       /\ faceAnalysis = <<>>
       /\ ~PersonCallIssued
       /\ pc = "responded" =>
            /\ response = OkResponse
            /\ formattedContent(personalityInsights) = "noProfiles"

\* C27: no request to /api/analyze runs the single-subject branch (the
\* concurrent OpenAI, Anthropic and Perplexity calls): whatever the number
\* of persons, one included, a request that reaches synthesis with a client
\* gets one per-person result for every person, and per-person calls go to
\* OpenAI alone.
C27_AlwaysPerPersonBranch ==
  reqBody.route = "analyze" =>
    /\ \A k \in 1..Len(callLog) : callLog[k] # Event("subjectCalls")
    /\ PersonCallIssued => "openai" \in llmClients
    /\ (pc \in {"an_people", "an_persist", "responded"} /\ llmClients # {}
          /\ \E k \in 1..Len(callLog) : callLog[k] = Event("faceAnalysis")) =>
         /\ Len(synthesized) = Len(faceAnalysis)
         /\ personalityInsights.kind = "returned" =>
              Len(personalityInsights.individualProfiles) = Len(faceAnalysis)

\* a request with exactly one person, answered after one call to OpenAI
\* for that person
C27_Witness ==
  /\ reqBody.route = "analyze"
  /\ pc = "responded"
  /\ response = OkResponse
  /\ Len(faceAnalysis) = 1
  /\ \E k \in 1..Len(callLog) : callLog[k] = PersonEvent("personCall", 1)
  /\ Len(personalityInsights.individualProfiles) = 1

\* C29 (as stated): a chat request answered with 400, 500 or 503 leaves
\* the session's messages as they were when it arrived.
C29_ErrorLeavesStoreUnchanged ==
  (reqBody.route = "chat" /\ pc = "responded" /\ response.status \in {400, 500, 503}) =>
    messages = storeAtArrival

\* the paths registered twice
DuplicatedPaths == {r \in {"text", "document", "chat"} : Len(MatchingFrom(r, 1)) = 2}

\* C30: text, document and chat are registered twice; for a request to
\* one of them only the handler registered first runs, the request is
\* answered when that handler ends, and an answer once sent is never
\* followed by another.
C30_FirstHandlerAnswersOnce ==
  [][/\ DuplicatedPaths = {"text", "document", "chat"}
     /\ response # NotResponded => response' = response
     /\ reqBody'.route \in DuplicatedPaths =>
          /\ handlerRun' = <<Head(MatchingFrom(reqBody'.route, 1))>>
          /\ pc' = "responded" => response' # NotResponded]_vars

\* a chat request answered 200 by the handler registered first
C30_Witness ==
  /\ reqBody.route = "chat"
  /\ pc = "responded"
  /\ response = OkResponse
  /\ handlerRun = <<5>>
  /\ Len(MatchingFrom("chat", 1)) = 2

\* C20: a Video Indexer run that fails at any step returns null, and the
\* request goes on with videoAnalysis.provider = "basic".
C20_IndexerFailureIsBasic ==
  /\ (pc = "vi_done" /\ indexerFailure # "none") => azureVideoInsights = "null"
  /\ \A k \in 1..Len(callLog) :
       callLog[k].event \in {"indexerFailed", "indexerSkipped"} =>
         /\ videoAnalysis.provider = "basic"
         /\ response.status \in {0, 200}

\* a video request whose Video Indexer run failed and that was answered
\* with status 200
C20_Witness ==
  /\ pc = "responded"
  /\ response.status = 200
  /\ \E k \in 1..Len(callLog) : callLog[k] = Event("indexerFailed")
  /\ videoAnalysis.provider = "basic"


\* ------------------------------------------------------------------------
Init ==
  /\ pc = "idle"
  /\ maxPeople = 1
  /\ faceKeys = {}
  /\ servicePromises = [p \in FaceProviders |-> "none"]
  /\ callOutcome = [p \in FaceProviders |-> NoOutcome]
  /\ analysisResults = EmptyResults
  /\ integratedResults = <<>>
  /\ valInput = UndefinedResult
  /\ valResult = NotValidated
  /\ sttKeys = {}
  /\ transcriptionResult = NoTranscription
  /\ invoked = <<>>
  /\ sttOutcome = [p \in TranscriptionProviders |-> SttNone]
  /\ pollCount = 0
  /\ audioReturn = NoReturn
  /\ llmClients = {}
  /\ apiPromises = [p \in LLMProviders |-> "none"]
  /\ apiValue = [p \in LLMProviders |-> NoResponse]
  /\ settledResults = [p \in LLMProviders |-> Unsettled]
  /\ insights = NoInsights
  /\ reqBody = NoBody
  /\ faceSlots = EmptyResults
  /\ faceAnalysis = <<>>
  /\ audioTranscription = NoReturn
  /\ synthesized = <<>>
  /\ personalityInsights = NoInsights
  /\ analyses = <<>>
  /\ response = NotResponded
  /\ callLog = <<>>
  /\ tempFiles = {}
  /\ videoAnalysis = NoVideoAnalysis
  /\ videoDuration = 0
  /\ actualDuration = 0
  /\ pendingPeople = {}
  /\ indexerKey = FALSE
  /\ indexingRetries = 0
  /\ indexerCalls = <<>>
  /\ indexerFailure = "none"
  /\ azureVideoInsights = "notReturned"
  /\ messages = <<>>
  /\ storeAtArrival = <<>>
  /\ handlerRun = <<>>

Next ==
  \/ FaceNext
  \/ ValNext
  \/ SttNext
  \/ LLMNext
  \/ AnalyzeNext
  \/ TextNext
  \/ DocumentNext
  \/ IndexerNext
  \/ ChatNext

Spec == Init /\ [][Next]_vars

\* every step the server can take is eventually taken; a provider that
\* never answers is a choice of the environment (FaceHang), not a step
\* that fairness forces to be followed by an answer
LiveSpec == Spec /\ WF_vars(Next)

\* C15: when one provider of the face fan-out never responds, the fan-out
\* still completes eventually, with that provider's slot holding a failure.
Hung(p) == callOutcome[p] = HangOutcome

C15_FanOutCompletesDespiteHang ==
  (\E p \in FaceProviders : Hung(p)) ~>
    (pc = "face_done" /\ \A p \in FaceProviders : Hung(p) => analysisResults[p] = ErrorSlot)

\* the state requests of one Video Indexer run
StatePolls == Cardinality({k \in 1..Len(indexerCalls) : indexerCalls[k] = "state"})


\* what one step does to a polling loop: it leaves the loop or counts one
\* more round, and a used-up counter ends the loop without another request
IndexerLoopStep ==
  pc = "vi_poll" =>
    /\ \/ pc' = "vi_done"
       \/ /\ pc' = "vi_poll"
          /\ indexingRetries' = indexingRetries + 1
          /\ indexingRetries' <= IndexerMaxRetries
    /\ indexingRetries = IndexerMaxRetries =>
         /\ pc' = "vi_done"
         /\ indexerCalls' = indexerCalls
         /\ azureVideoInsights' = "null"

AssemblyLoopStep ==
  pc = "stt_assembly_poll" =>
    /\ \/ pc' = "stt_deepgram"
       \/ /\ pc' = "stt_assembly_poll"
          /\ pollCount' = pollCount + 1
          /\ pollCount' <= AssemblyMaxPolls
    /\ pollCount = AssemblyMaxPolls =>
         /\ pc' = "stt_deepgram"
         /\ transcriptionResult' = transcriptionResult
         /\ sttOutcome'["assemblyai"].kind # "ok"

\* C21: both polling loops end: every round of the Video Indexer loop and
\* of the AssemblyAI loop either leaves the loop or adds one to a counter
\* that never passes 20 (30), and with the counter used up the function
\* goes on with a failure (null, the next provider) without polling again.
C21_PollingTerminates ==
  [][/\ IndexerLoopStep
     /\ AssemblyLoopStep
     /\ StatePolls' <= IndexerMaxRetries]_vars

\* a Video Indexer run that asked for the state 20 times and gave up
C21_Witness ==
  /\ pc = "vi_done"
  /\ indexerFailure = "exhausted"
  /\ StatePolls = IndexerMaxRetries

====
